---- MODULE Spec2Model ----
(***************************************************************************)
(* Model of the meeting-transcript review client.                          *)
(*                                                                         *)
(* ExtractedItemsPanel (extraction lifecycle, polling, review workflow)    *)
(* and the parts of App it talks to (the task list and its refresh).       *)
(* A render together with the passive effects it triggers is one atomic    *)
(* step; every awaited request is a call in flight.  A request reaches the *)
(* server when it is sent, so the call carries its response from then on;  *)
(* responses are delivered after an arbitrary delay and in any order.      *)
(* Each call carries the values its closure captured (meetingId,           *)
(* selectedExtractionId, item) at the render that created it.              *)
(***************************************************************************)
EXTENDS Bags, FiniteSets, Integers, Sequences, TLC

\* ---------------------------------------------------------------- bounds
MaxRuns == 2          \* extraction runs the server ever holds
MaxCalls == 2         \* calls in flight above which no user or timer event starts
MaxEvents == 2        \* meeting changes, starts, teardowns and failed requests in a behaviour
MaxItems == 2         \* items a complete run has produced
MaxTasks == 2         \* tasks the server ever holds
MaxClicks == 2        \* review buttons pressed in a behaviour
MaxTaskClicks == 3    \* Done and Undo buttons pressed in a behaviour
MaxAppClicks == 2     \* App and login buttons pressed in a behaviour
MaxWorkspaces == 3    \* workspaces the server ever holds for the caller
Meetings == {1, 2}    \* meeting ids; 0 stands for null

Runs == 1..MaxRuns
ItemIds == 1..(MaxRuns * MaxItems)

VARIABLES
  meetingId,              \* prop meetingId (0 = null)
  mounted,                \* the panel is mounted
  extractions,            \* useState<Extraction[]>
  selectedExtractionId,   \* useState<number | null> (0 = null)
  items,                  \* useState<ExtractedItem[]>
  loadingExtractions,     \* useState(false)
  starting,               \* useState(false)
  pollRef,                \* useRef: the interval the ref points to, or NoTimer
  timers,                 \* intervals armed in the window
  calls,                  \* bag of async invocations awaiting a response
  srvRuns,                \* server: run id -> [mid, status], mid = 0 when not created
  order,                  \* server: order of the run list it returns
  events,                 \* budgeted events so far
  hist,                   \* history: [switched, failed], read by properties only
  workspaceId,            \* prop workspaceId = App's activeWorkspaceId (0 = null)
  busyIds,                \* useState<Record<number, boolean>> (absent = FALSE)
  reviewFilter,           \* useState<ReviewFilter>("pending")
  tasks,                  \* App: useState<Task[]>
  srvTasks,               \* server: the tasks created so far
  srvItems,               \* server: item id -> status ("absent" = field omitted)
  approveResult,          \* history: how the last approve of each item ended
  lastDone,               \* App: useState<{taskId, prevStatus} | null>
  clicks,                 \* review, task or App buttons pressed so far
  route,                  \* the router's location: "login" or "app"
  gate,                   \* ProtectedRoute: "none" (not mounted), "pending" (ok === null),
                          \* "ok" (true), "denied" (false)
  session,                \* server: the caller's session cookie is valid
  user,                   \* App: useState<User | null> (0 = null)
  workspaces,             \* App: useState<Workspace[]>, as the list of their ids
  srvWorkspaces,          \* server: the ids of the caller's workspaces
  meetings,               \* App: useState<Meeting[]>
  members,                \* App: useState<WorkspaceMember[]>
  reqIn,                  \* a response handed to the API client
  reqOut                  \* what the API client made of it

panelVars == <<meetingId, mounted, extractions, selectedExtractionId, items,
               loadingExtractions, starting, pollRef, timers, calls,
               srvRuns, order, events, hist>>

reviewVars == <<workspaceId, busyIds, reviewFilter, tasks, srvTasks, srvItems,
                approveResult, lastDone, clicks>>

appVars == <<route, gate, session, user, workspaces, srvWorkspaces, meetings,
             members, reqIn, reqOut>>

vars == <<panelVars, reviewVars, appVars>>

\* the panel's variables that no request touches
panelRest == <<meetingId, mounted, extractions, selectedExtractionId, items,
               loadingExtractions, starting, pollRef, timers, srvRuns, order, hist>>

\* ------------------------------------------------------------ data types
NoTimer == [mid |-> 0, sel |-> 0]

\* lastDone = null
NoRecord == [taskId |-> 0, prevStatus |-> "none"]

Terminal == {"complete", "failed"}

\* GET /meetings?workspace_id=w : workspaces 1 and 2 hold one meeting each,
\* with the id of the workspace; a workspace created later holds none
MeetingsOf(w) ==
  IF w \in Meetings THEN <<[id |-> w, workspace_id |-> w]>> ELSE <<>>

\* GET /workspaces/{w}/members : the caller is a member of each of its workspaces
MembersOf(w) == <<[id |-> w, workspace_id |-> w]>>

\* no response has been handed to the API client
NoRequest == [fn |-> "none"]

\* the workspace view is on screen: ProtectedRoute renders its children
Rendered == route = "app" /\ gate = "ok"

\* App is mounted and loaded for workspace 1, its session valid
AppLoaded ==
  /\ route = "app"
  /\ gate = "ok"
  /\ session = TRUE
  /\ user = 1
  /\ workspaces = <<1, 2>>
  /\ srvWorkspaces = <<1, 2>>
  /\ meetings = MeetingsOf(1)
  /\ members = MembersOf(1)

AppIdle ==
  /\ AppLoaded
  /\ reqIn = NoRequest
  /\ reqOut = NoRequest

\* the run an item belongs to, its kind, and the title it carries
ItemRun(i) == ((i - 1) \div MaxItems) + 1

KindOf(i) == IF i % 2 = 1 THEN "action_item" ELSE "decision"

\* ExtractedItem as the server sends it; status "absent" is a missing field
RawItem(i) == [id |-> i, extraction_id |-> ItemRun(i), kind |-> KindOf(i),
               title |-> i, status |-> srvItems[i]]

\* mutant: the server's item is stored as it arrives
normalizeItem_Raw(raw) == raw

\* normalizeItem: status: (raw.status ?? "pending")
normalizeItem(raw) ==
  [raw EXCEPT !.status = IF raw.status = "absent" THEN "pending" ELSE raw.status]

RECURSIVE MapNormalize(_)
MapNormalize(s) ==
  IF s = <<>> THEN <<>> ELSE <<normalizeItem(Head(s))>> \o MapNormalize(Tail(s))

\* ---------------------------------------------------------------- server
RECURSIVE RunsAsc(_, _)
RunsAsc(m, r) ==
  IF r > MaxRuns THEN <<>>
  ELSE (IF srvRuns[r].mid = m
          THEN <<[id |-> r, meeting_id |-> m, status |-> srvRuns[r].status]>>
          ELSE <<>>) \o RunsAsc(m, r + 1)

Reverse(s) == [i \in 1..Len(s) |-> s[Len(s) + 1 - i]]

\* GET /meetings/{id}/extractions
ServerListExtractions(m) ==
  IF order = "asc" THEN RunsAsc(m, 1) ELSE Reverse(RunsAsc(m, 1))

\* GET /extractions/{id}/items : a run has produced its items once complete
ServerListItems(r) ==
  IF srvRuns[r].status = "complete"
    THEN [k \in 1..MaxItems |-> RawItem((r - 1) * MaxItems + k)]
    ELSE <<>>

FreeRuns == {r \in Runs : srvRuns[r].mid = 0}

\* ---------------------------------------------------------------- client
Ids(exts) == {exts[i].id : i \in 1..Len(exts)}

\* activeExtraction?.status, "none" when activeExtraction is null
ActiveStatus(exts, sel) ==
  IF sel # 0 /\ sel \in Ids(exts)
    THEN (CHOOSE e \in {exts[i] : i \in 1..Len(exts)} : e.id = sel).status
    ELSE "none"

\* An async invocation suspended at an await.  The request reaches the
\* server when it is sent, so the call already carries the response (exts,
\* its, ext); the response is delivered after an arbitrary delay, and
\* responses may overtake one another.
Call(op, pc, mid, sel, ext, arg) ==
  [op |-> op, pc |-> pc, mid |-> mid, sel |-> sel, ext |-> ext, arg |-> arg,
   st |-> "ok",
   exts |-> IF pc = "listExt" THEN ServerListExtractions(mid) ELSE <<>>,
   its |-> IF pc \in {"innerItems", "finalItems", "items"}
             THEN ServerListItems(arg) ELSE <<>>]

Add(b, c) == b (+) SetToBag({c})
Del(b, c) == b (-) SetToBag({c})
AddAll(b, S) == b (+) SetToBag(S)

\* mutant: the polling effect depends on the selection only
PollDeps_SelOnly(exts, sel) == <<"none", sel>>

\* the dependency list of the polling effect
PollDeps(exts, sel) == <<ActiveStatus(exts, sel), sel>>

\* mutant: the polling effect arms without clearing the previous interval
PollTimersAfter_NoClear(exts2, sel2, mid2) ==
  timers \cup
    (IF ActiveStatus(exts2, sel2) = "processing"
       THEN {[mid |-> mid2, sel |-> sel2]} ELSE {})

\* the polling effect: clear the interval the ref holds, arm a new one while
\* the active extraction is processing
PollTimersAfter(exts2, sel2, mid2) ==
  (timers \ {pollRef}) \cup
    (IF ActiveStatus(exts2, sel2) = "processing"
       THEN {[mid |-> mid2, sel |-> sel2]} ELSE {})

\* mutant: the armed interval is not stored in the ref
PollRefAfter_Lost(exts2, sel2, mid2) == NoTimer

PollRefAfter(exts2, sel2, mid2) ==
  IF ActiveStatus(exts2, sel2) = "processing"
    THEN [mid |-> mid2, sel |-> sel2] ELSE NoTimer

\* One commit: the state the handler has set (mid2, exts2, sel2, its2, le2,
\* st2), the calls it has left in flight (calls2), then the effects of the
\* render that follows: the selectedExtractionId effect and the polling
\* effect, each only when its dependencies changed.
Commit(mid2, exts2, sel2, its2, le2, st2, calls2) ==
  /\ meetingId' = mid2
  /\ extractions' = exts2
  /\ selectedExtractionId' = sel2
  /\ loadingExtractions' = le2
  /\ starting' = st2
  /\ items' = IF sel2 # selectedExtractionId /\ sel2 = 0 THEN <<>> ELSE its2
  /\ calls' = IF sel2 # selectedExtractionId /\ sel2 # 0
                THEN Add(calls2, Call("effItems", "items", mid2, sel2, 0, sel2))
                ELSE calls2
  /\ IF PollDeps(exts2, sel2) # PollDeps(extractions, selectedExtractionId)
       THEN /\ timers' = PollTimersAfter(exts2, sel2, mid2)
            /\ pollRef' = PollRefAfter(exts2, sel2, mid2)
       ELSE UNCHANGED <<timers, pollRef>>
  /\ UNCHANGED mounted

\* a response that reaches the panel after it was torn down sets no state
Ignore(c) ==
  /\ calls' = Del(calls, c)
  /\ UNCHANGED <<meetingId, mounted, extractions, selectedExtractionId, items,
                 loadingExtractions, starting, pollRef, timers>>

InFlight == BagCardinality(calls)

\* ------------------------------------------------------------------ Init
\* The panel has mounted with no meeting: refreshExtractions and refreshItems
\* returned at once, no interval is armed.  The server holds one run.
Init ==
  /\ meetingId = 0
  /\ mounted = TRUE
  /\ extractions = <<>>
  /\ selectedExtractionId = 0
  /\ items = <<>>
  /\ loadingExtractions = FALSE
  /\ starting = FALSE
  /\ pollRef = NoTimer
  /\ timers = {}
  /\ calls = EmptyBag
  /\ order \in {"asc", "desc"}
  /\ events = 0
  /\ hist = [switched |-> FALSE, failed |-> FALSE]
  /\ srvRuns = [r \in Runs |-> IF r = 1 THEN [mid |-> 1, status |-> "processing"]
                                ELSE [mid |-> 0, status |-> "none"]]
  /\ workspaceId = 1
  /\ busyIds = [i \in ItemIds |-> FALSE]
  /\ reviewFilter = "pending"
  /\ tasks = <<>>
  /\ srvTasks = <<>>
  /\ srvItems = [i \in ItemIds |-> "absent"]
  /\ approveResult = [i \in ItemIds |-> "none"]
  /\ lastDone = NoRecord
  /\ clicks = 0
  /\ AppIdle

\* --------------------------------------------------------------- actions
\* App passes a new meetingId; the meetingId effect calls refreshExtractions
SelectMeeting(m) ==
  /\ mounted
  /\ InFlight < MaxCalls
  /\ events < MaxEvents
  /\ events' = events + 1
  /\ m # meetingId
  /\ IF m = 0
       THEN Commit(m, <<>>, 0, items, loadingExtractions, starting, calls)
       ELSE Commit(m, extractions, selectedExtractionId, items, TRUE, starting,
                   Add(calls, Call("effExt", "listExt", m, selectedExtractionId, 0, 0)))
  /\ hist' = [hist EXCEPT !.switched = \A c \in BagToSet(calls) : c.op # "start"]
  /\ UNCHANGED <<srvRuns, order, reviewVars, appVars>>

\* the run <select>: onChange sets selectedExtractionId
SelectRun(r) ==
  /\ mounted
  /\ InFlight < MaxCalls
  /\ UNCHANGED events
  /\ ~(loadingExtractions \/ starting)
  /\ r \in Ids(extractions)
  /\ r # selectedExtractionId
  /\ Commit(meetingId, extractions, r, items, loadingExtractions, starting, calls)
  /\ hist' = [hist EXCEPT !.switched = FALSE]
  /\ UNCHANGED <<srvRuns, order, reviewVars, appVars>>

\* the "Run extraction" button: POST /meetings/{id}/extract creates a run
StartExtraction ==
  /\ mounted
  /\ InFlight < MaxCalls
  /\ events < MaxEvents
  /\ events' = events + 1
  /\ meetingId # 0
  /\ ~starting
  /\ FreeRuns # {}
  /\ LET r == CHOOSE x \in FreeRuns : \A y \in FreeRuns : x <= y
     IN /\ srvRuns' = [srvRuns EXCEPT ![r] = [mid |-> meetingId, status |-> "processing"]]
        /\ Commit(meetingId, extractions, selectedExtractionId, items,
                  loadingExtractions, TRUE,
                  Add(calls, Call("start", "startReq", meetingId, selectedExtractionId, r, 0)))
  /\ hist' = [hist EXCEPT !.switched = FALSE]
  /\ UNCHANGED <<order, reviewVars, appVars>>

\* the interval callback fires: refreshExtractions() of the render that armed it
Tick(t) ==
  /\ t \in timers
  /\ InFlight < MaxCalls
  /\ IF t.mid = 0
       THEN Commit(meetingId, <<>>, 0, items, loadingExtractions, starting,
                   Add(calls, Call("tick", "finalItems", t.mid, t.sel, 0, t.sel)))
       ELSE Commit(meetingId, extractions, selectedExtractionId, items, TRUE, starting,
                   Add(calls, Call("tick", "listExt", t.mid, t.sel, 0, 0)))
  /\ UNCHANGED <<srvRuns, order, events, hist, reviewVars, appVars>>

\* the panel is torn down: the cleanup of the polling effect runs
Unmount ==
  /\ mounted
  /\ events < MaxEvents
  /\ events' = events + 1
  /\ mounted' = FALSE
  /\ timers' = timers \ {pollRef}
  /\ pollRef' = NoTimer
  /\ UNCHANGED <<meetingId, extractions, selectedExtractionId, items,
                 loadingExtractions, starting, calls, srvRuns, order, hist,
                 reviewVars, appVars>>

\* ------------------------------------------------------ environment
\* how the summarisation of run r ends: odd runs succeed, even runs fail
Outcome(r) == IF r % 2 = 1 THEN "complete" ELSE "failed"

\* the summarisation finishes
RunFinishes(r) ==
  /\ srvRuns[r].status = "processing"
  /\ srvRuns' = [srvRuns EXCEPT ![r].status = Outcome(r)]
  /\ UNCHANGED <<meetingId, mounted, extractions, selectedExtractionId, items,
                 loadingExtractions, starting, pollRef, timers, calls, order, events,
                 hist, reviewVars, appVars>>

\* a request in flight fails (network error or non-2xx response): request()
\* throws instead of returning the body
Fail(c) ==
  /\ BagIn(c, calls)
  /\ c.st = "ok"
  /\ events < MaxEvents
  /\ events' = events + 1
  /\ calls' = Add(Del(calls, c), [c EXCEPT !.st = "err", !.exts = <<>>, !.its = <<>>])
  /\ hist' = [hist EXCEPT !.failed = TRUE]
  /\ UNCHANGED <<meetingId, mounted, extractions, selectedExtractionId, items,
                 loadingExtractions, starting, pollRef, timers, srvRuns, order,
                 reviewVars, appVars>>

\* ------------------------------------------------- response delivery
\* what follows `await refreshExtractions()` in the caller c
AfterRefresh(c) ==
  IF c.op = "tick" THEN {Call("tick", "finalItems", c.mid, c.sel, c.ext, c.sel)}
  ELSE IF c.op = "start" THEN {Call("start", "finalItems", c.mid, c.sel, c.ext, c.ext)}
  ELSE {}

\* `await refreshItems(id)` inside refreshExtractions
Inner(c, id) == Call(c.op, "innerItems", c.mid, c.sel, c.ext, id)

\* setStarting(false) in the finally of startExtraction
StartingAfter(c) == IF c.op = "start" THEN FALSE ELSE starting

\* refreshExtractions resumes after `await api.listExtractions(meetingId)`
DeliverListExt(c) ==
  /\ c.pc = "listExt" /\ c.st = "ok"
  /\ LET rest == Del(calls, c)
         first == IF Len(c.exts) > 0 THEN c.exts[1].id ELSE 0
     IN IF c.sel = 0 /\ Len(c.exts) > 0
          THEN Commit(meetingId, c.exts, first, items, loadingExtractions, starting,
                      Add(rest, Inner(c, first)))
        ELSE IF c.sel # 0 /\ c.sel \notin Ids(c.exts)
          THEN IF first # 0
                 THEN Commit(meetingId, c.exts, first, items, loadingExtractions,
                             starting, Add(rest, Inner(c, first)))
                 ELSE Commit(meetingId, c.exts, 0, items, FALSE, starting,
                             AddAll(rest, AfterRefresh(c)))
        ELSE Commit(meetingId, c.exts, selectedExtractionId, items, FALSE, starting,
                    AddAll(rest, AfterRefresh(c)))

\* refreshItems called inside refreshExtractions resumes
DeliverInnerItems(c) ==
  /\ c.pc = "innerItems" /\ c.st = "ok"
  /\ Commit(meetingId, extractions, selectedExtractionId, MapNormalize(c.its),
            FALSE, starting, AddAll(Del(calls, c), AfterRefresh(c)))

\* refreshItems called last by the tick, by startExtraction or by the
\* selectedExtractionId effect resumes
DeliverItems(c) ==
  /\ c.pc \in {"finalItems", "items"} /\ c.st = "ok"
  /\ Commit(meetingId, extractions, selectedExtractionId, MapNormalize(c.its),
            loadingExtractions, StartingAfter(c), Del(calls, c))

\* startExtraction resumes after `await api.startExtraction(...)`
DeliverStart(c) ==
  /\ c.pc = "startReq" /\ c.st = "ok"
  /\ Commit(meetingId, extractions, c.ext, items, TRUE, starting,
            Add(Del(calls, c), Call("start", "listExt", c.mid, c.sel, c.ext, 0)))

\* the awaited request rejected: the finally blocks run, the caller throws
DeliverError(c) ==
  /\ c.st = "err"
  /\ Commit(meetingId, extractions, selectedExtractionId, items,
            IF c.pc \in {"listExt", "innerItems"} THEN FALSE ELSE loadingExtractions,
            StartingAfter(c), Del(calls, c))

Deliver(c) ==
  /\ BagIn(c, calls)
  /\ IF mounted
       THEN \/ DeliverListExt(c)
            \/ DeliverInnerItems(c)
            \/ DeliverItems(c)
            \/ DeliverStart(c)
            \/ DeliverError(c)
       ELSE Ignore(c)
  /\ UNCHANGED <<srvRuns, order, events, hist, reviewVars, appVars>>

\* ------------------------------------------------------------------ Next
Next ==
  \/ \E m \in Meetings \cup {0} : SelectMeeting(m)
  \/ \E r \in Runs : SelectRun(r)
  \/ StartExtraction
  \/ \E t \in timers : Tick(t)
  \/ Unmount
  \/ \E r \in Runs : RunFinishes(r)
  \/ \E c \in BagToSet(calls) : Fail(c)
  \/ \E c \in BagToSet(calls) : Deliver(c)

Spec == Init /\ [][Next]_vars

\* The behaviours of the liveness claim: the user no longer picks runs by
\* hand, the interval keeps firing, responses keep arriving, runs end.
LiveNext ==
  \/ \E m \in Meetings \cup {0} : SelectMeeting(m)
  \/ StartExtraction
  \/ \E t \in timers : Tick(t)
  \/ Unmount
  \/ \E r \in Runs : RunFinishes(r)
  \/ \E c \in BagToSet(calls) : Fail(c)
  \/ \E c \in BagToSet(calls) : Deliver(c)

LiveSpec ==
  /\ Init /\ [][LiveNext]_vars
  /\ WF_vars(\E t \in timers : Tick(t))
  /\ WF_vars(\E c \in BagToSet(calls) : Deliver(c))
  /\ WF_vars(\E r \in Runs : RunFinishes(r))

\* -------------------------------------------------------- review workflow
\* how the server answers a request: 2xx, or non-2xx with nothing applied
Answers == {"ok", "err"}

\* a nullable list of strings: null, or the list s
NullList == [null |-> TRUE, list |-> <<>>]

List(s) == [null |-> FALSE, list |-> s]

\* mutant: approve leaves the item flagged for review
ApprovePatch_KeepReview == [status |-> "approved", needs_review |-> TRUE,
                            review_reasons |-> NullList, edit_reason |-> "human_approved"]

\* the body approveItem sends to PATCH /items/{id}
ApprovePatch == [status |-> "approved", needs_review |-> FALSE,
                 review_reasons |-> NullList, edit_reason |-> "human_approved"]

\* what window.prompt returns: <<>> is null (cancelled), <<t>> the text t
PromptAnswers == {<<>>, <<"">>, <<"off topic">>}

\* JavaScript truthiness of the prompt's answer
Truthy(reason) == reason # <<>> /\ reason[1] # ""

\* mutant: reject sends the typed reason even when it is empty
RejectPatch_NoDefault(reason) ==
  [status |-> "rejected", needs_review |-> TRUE,
   review_reasons |-> List(reason),
   edit_reason |-> IF reason = <<>> THEN "human_rejected" ELSE reason[1]]

\* the body rejectItem sends: reason ? [reason] : ["human_rejected"] and
\* reason ?? "human_rejected"
RejectPatch(reason) ==
  [status |-> "rejected", needs_review |-> TRUE,
   review_reasons |-> IF Truthy(reason) THEN List(<<reason[1]>>)
                      ELSE List(<<"human_rejected">>),
   edit_reason |-> IF reason = <<>> THEN "human_rejected" ELSE reason[1]]

\* the body editItem sends: the card passes the item itself as the payload,
\* which has no edit_reason, so {...payload, edit_reason: "human_edit"}
EditPatch(item) ==
  [id |-> item.id, extraction_id |-> item.extraction_id, kind |-> item.kind,
   title |-> item.title, status |-> item.status, edit_reason |-> "human_edit"]

\* a review handler (approveItem, rejectItem, editItem) suspended at an
\* await; item is the closure's item, patch the body of its item patch, ts
\* the task list and raw the item the response carries, taskFailed whether
\* the catch around the task creation has run
HandlerCall(op, pc, item, patch, st, ts, raw, taskFailed) ==
  [op |-> op, pc |-> pc, item |-> item, st |-> st, ts |-> ts, raw |-> raw,
   patch |-> patch, taskFailed |-> taskFailed]

ReviewCall(pc, item, st, ts, raw, taskFailed) ==
  HandlerCall("approve", pc, item, ApprovePatch, st, ts, raw, taskFailed)

NoRaw == [id |-> 0]

\* a failed request counts against the budget of failures
Budget(st) ==
  /\ st = "err" => events < MaxEvents
  /\ events' = IF st = "err" THEN events + 1 ELSE events

\* POST /tasks : the server stores the task and answers with it
SendCreateTask(rest, item) ==
  \E st \in Answers :
    /\ Budget(st)
    /\ srvTasks' = IF st = "ok"
                     THEN Append(srvTasks, [id |-> Len(srvTasks) + 1,
                                            workspace_id |-> workspaceId,
                                            title |-> item.title, status |-> "todo"])
                     ELSE srvTasks
    /\ calls' = Add(rest, ReviewCall("createTask", item, st, <<>>, NoRaw, FALSE))
    /\ UNCHANGED srvItems

\* onTasksChanged = refreshTasks(activeWorkspaceId): GET /tasks
SendListTasks(rest, c) ==
  \E st \in Answers :
    /\ Budget(st)
    /\ calls' = Add(rest, ReviewCall("listTasks", c.item, st,
                                     IF st = "ok" THEN srvTasks ELSE <<>>, NoRaw, FALSE))
    /\ UNCHANGED <<srvTasks, srvItems>>

\* PATCH /items/{id} : the server applies the patch and answers with the item
SendItemPatch(rest, op, item, patch, taskFailed) ==
  \E st \in Answers :
    /\ Budget(st)
    /\ srvItems' = IF st = "ok" THEN [srvItems EXCEPT ![item.id] = patch.status]
                   ELSE srvItems
    /\ calls' = Add(rest, HandlerCall(op, "patch", item, patch, st, <<>>,
                                      IF st = "ok"
                                        THEN [RawItem(item.id) EXCEPT !.status = patch.status]
                                        ELSE NoRaw,
                                      taskFailed))
    /\ UNCHANGED srvTasks

\* the item patch of approveItem
SendPatch(rest, item, taskFailed) ==
  SendItemPatch(rest, "approve", item, ApprovePatch, taskFailed)

\* mutant: setBusy replaces the whole record
setBusy_Replace(id, v) == [j \in ItemIds |-> j = id /\ v]

\* setBusyIds((prev) => ({ ...prev, [id]: v }))
setBusy(id, v) == [busyIds EXCEPT ![id] = v]

\* mutant: the card's buttons ignore busy
CardEnabled_Always(i) == TRUE

\* the footer buttons of the card of item i: disabled={busy}
CardEnabled(i) == ~busyIds[i]

\* mutant: the error of the task creation is not caught
CatchTaskError_Rethrow(rest, c) ==
  /\ calls' = rest
  /\ busyIds' = setBusy(c.item.id, FALSE)
  /\ approveResult' = [approveResult EXCEPT ![c.item.id] = "threw"]
  /\ UNCHANGED <<srvTasks, srvItems, events>>

\* the catch around createTask and onTasksChanged: log, go on to the patch
CatchTaskError(rest, c) ==
  /\ SendPatch(rest, c.item, TRUE)
  /\ UNCHANGED <<busyIds, approveResult>>

ReviewFilters == {"pending", "approved", "rejected", "all"}

\* mutant: the all view is filtered like a status view
FilterView_NoAll(its, f) ==
  SelectSeq(its, LAMBDA it : (IF it.status = "absent" THEN "pending" ELSE it.status) = f)

\* items.filter((it) => (it.status ?? "pending") === reviewFilter)
FilterView(its, f) ==
  IF f = "all" THEN its
  ELSE SelectSeq(its, LAMBDA it :
                        (IF it.status = "absent" THEN "pending" ELSE it.status) = f)

\* the items whose cards are rendered
filteredItems == FilterView(items, reviewFilter)

\* a button is pressed
Click == clicks < MaxClicks /\ clicks' = clicks + 1

\* the filter buttons
SetReviewFilter(f) ==
  /\ mounted
  /\ f # reviewFilter
  /\ reviewFilter' = f
  /\ UNCHANGED <<appVars, panelVars, workspaceId, busyIds, tasks, srvTasks, srvItems,
                 approveResult, lastDone, clicks>>

\* the approve button of the card of item i (disabled while busy)
Approve(i) ==
  /\ mounted
  /\ Click
  /\ CardEnabled(i)
  /\ \E k \in 1..Len(filteredItems) :
       /\ filteredItems[k].id = i
       /\ IF filteredItems[k].kind = "action_item" /\ workspaceId # 0
            THEN /\ Len(srvTasks) < MaxTasks
                 /\ SendCreateTask(calls, filteredItems[k])
            ELSE SendPatch(calls, filteredItems[k], FALSE)
  /\ busyIds' = setBusy(i, TRUE)
  /\ approveResult' = [approveResult EXCEPT ![i] = "running"]
  /\ UNCHANGED <<appVars, meetingId, mounted, extractions, selectedExtractionId, items,
                 loadingExtractions, starting, pollRef, timers, srvRuns, order, hist,
                 workspaceId, reviewFilter, tasks, lastDone>>

\* the No button of the card of item i; answer is what the prompt returns
Reject(i, answer) ==
  /\ mounted
  /\ Click
  /\ CardEnabled(i)
  /\ \E k \in 1..Len(filteredItems) :
       /\ filteredItems[k].id = i
       /\ SendItemPatch(calls, "reject", filteredItems[k], RejectPatch(answer), FALSE)
  /\ busyIds' = setBusy(i, TRUE)
  /\ UNCHANGED <<appVars, meetingId, mounted, extractions, selectedExtractionId, items,
                 loadingExtractions, starting, pollRef, timers, srvRuns, order, hist,
                 workspaceId, reviewFilter, tasks, approveResult, lastDone>>

\* the Edit button of the card of item i: onEdit(item) reaches editItem as
\* editItem(it.id, item)
Edit(i) ==
  /\ mounted
  /\ Click
  /\ CardEnabled(i)
  /\ \E k \in 1..Len(filteredItems) :
       /\ filteredItems[k].id = i
       /\ SendItemPatch(calls, "edit", filteredItems[k], EditPatch(filteredItems[k]), FALSE)
  /\ busyIds' = setBusy(i, TRUE)
  /\ UNCHANGED <<appVars, meetingId, mounted, extractions, selectedExtractionId, items,
                 loadingExtractions, starting, pollRef, timers, srvRuns, order, hist,
                 workspaceId, reviewFilter, tasks, approveResult, lastDone>>

\* approveItem resumes after `await api.createTask(...)`
DeliverCreateTask(c) ==
  /\ c.pc = "createTask"
  /\ IF c.st = "ok"
       THEN SendListTasks(Del(calls, c), c) /\ UNCHANGED <<busyIds, approveResult>>
       ELSE CatchTaskError(Del(calls, c), c)
  /\ UNCHANGED <<items, tasks>>

\* refreshTasks resumes after `await api.listTasks(...)`, approveItem after it
DeliverListTasks(c) ==
  /\ c.pc = "listTasks"
  /\ IF c.st = "ok"
       THEN /\ tasks' = c.ts
            /\ SendPatch(Del(calls, c), c.item, FALSE)
            /\ UNCHANGED <<busyIds, approveResult>>
       ELSE /\ UNCHANGED tasks
            /\ CatchTaskError(Del(calls, c), c)
  /\ UNCHANGED items

\* mutant: the response replaces every entry of the list
ReplaceItem_All(prev, id, patched) == [k \in 1..Len(prev) |-> patched]

\* setItems((prev) => prev.map((p) => (p.id === item.id ? patched : p)))
ReplaceItem(prev, id, patched) ==
  [k \in 1..Len(prev) |-> IF prev[k].id = id THEN patched ELSE prev[k]]

\* approveItem, rejectItem or editItem resumes after
\* `await api.patchExtractedItem(...)`; finally
DeliverPatch(c) ==
  /\ c.pc = "patch"
  /\ items' = IF c.st = "ok"
                THEN ReplaceItem(items, c.item.id, normalizeItem(c.raw)) ELSE items
  /\ busyIds' = setBusy(c.item.id, FALSE)
  /\ approveResult' = IF c.op = "approve"
                        THEN [approveResult EXCEPT ![c.item.id] =
                                IF c.st = "ok" THEN "returned" ELSE "threw"]
                        ELSE approveResult
  /\ calls' = Del(calls, c)
  /\ UNCHANGED <<tasks, srvTasks, srvItems, events>>

ReviewDeliver(c) ==
  /\ BagIn(c, calls)
  /\ c.op \in {"approve", "reject", "edit"}
  /\ \/ DeliverCreateTask(c)
     \/ DeliverListTasks(c)
     \/ DeliverPatch(c)
  /\ UNCHANGED <<appVars, meetingId, mounted, extractions, selectedExtractionId,
                 loadingExtractions, starting, pollRef, timers, srvRuns, order, hist,
                 workspaceId, reviewFilter, lastDone, clicks>>

\* The review starts from a loaded panel: meeting 1 is selected, its run 1
\* is complete and selected, its items are listed, nothing is in flight.
ReviewInit ==
  /\ meetingId = 1
  /\ mounted = TRUE
  /\ srvRuns = [r \in Runs |-> IF r = 1 THEN [mid |-> 1, status |-> "complete"]
                                ELSE [mid |-> 0, status |-> "none"]]
  /\ srvItems = [i \in ItemIds |-> "absent"]
  /\ order = "asc"
  /\ extractions = ServerListExtractions(1)
  /\ selectedExtractionId = 1
  /\ items = MapNormalize(ServerListItems(1))
  /\ loadingExtractions = FALSE
  /\ starting = FALSE
  /\ pollRef = NoTimer
  /\ timers = {}
  /\ calls = EmptyBag
  /\ events = 0
  /\ hist = [switched |-> TRUE, failed |-> FALSE]
  /\ workspaceId \in {0, 1}
  /\ busyIds = [i \in ItemIds |-> FALSE]
  /\ reviewFilter = "pending"
  /\ tasks = <<>>
  /\ srvTasks = <<>>
  /\ approveResult = [i \in ItemIds |-> "none"]
  /\ lastDone = NoRecord
  /\ clicks = 0
  /\ AppIdle

ReviewNext ==
  \/ \E f \in ReviewFilters : SetReviewFilter(f)
  \/ \E i \in ItemIds : Approve(i)
  \/ \E i \in ItemIds : \E answer \in PromptAnswers : Reject(i, answer)
  \/ \E i \in ItemIds : Edit(i)
  \/ \E c \in BagToSet(calls) : ReviewDeliver(c)

ReviewSpec == ReviewInit /\ [][ReviewNext]_vars

\* ----------------------------------- review while the run selection changes
\* The meeting has two complete runs; the first is selected and its items
\* are listed.
FrameInit ==
  /\ meetingId = 1
  /\ mounted = TRUE
  /\ srvRuns = [r \in Runs |-> IF r <= 2 THEN [mid |-> 1, status |-> "complete"]
                                ELSE [mid |-> 0, status |-> "none"]]
  /\ srvItems = [i \in ItemIds |-> "absent"]
  /\ order = "asc"
  /\ extractions = ServerListExtractions(1)
  /\ selectedExtractionId = 1
  /\ items = MapNormalize(ServerListItems(1))
  /\ loadingExtractions = FALSE
  /\ starting = FALSE
  /\ pollRef = NoTimer
  /\ timers = {}
  /\ calls = EmptyBag
  /\ events = 0
  /\ hist = [switched |-> TRUE, failed |-> FALSE]
  /\ workspaceId \in {0, 1}
  /\ busyIds = [i \in ItemIds |-> FALSE]
  /\ reviewFilter = "pending"
  /\ tasks = <<>>
  /\ srvTasks = <<>>
  /\ approveResult = [i \in ItemIds |-> "none"]
  /\ lastDone = NoRecord
  /\ clicks = 0
  /\ AppIdle

\* the review handlers, the run picker, and the answers to both
FrameNext ==
  \/ ReviewNext
  \/ \E r \in Runs : SelectRun(r)
  \/ \E c \in BagToSet(calls) :
       c.op \notin {"approve", "reject", "edit"} /\ Deliver(c)

FrameSpec == FrameInit /\ [][FrameNext]_vars

\* ------------------------------------------------------------- API client
\* the two functions of the client that call fetch themselves
ApiFns == {"request", "uploadTranscript"}

Statuses == {200, 201, 204, 400, 401, 404, 422, 500}

\* the detail member of a JSON body: absent, a string, or (as in a validation
\* error) a list of objects
Details == {[t |-> "absent", v |-> ""], [t |-> "string", v |-> ""],
            [t |-> "string", v |-> "Not authenticated"], [t |-> "list", v |-> ""]}

\* response bodies: no text, text that is not JSON, the JSON value null, a
\* JSON object
Bodies == {[kind |-> "empty", detail |-> [t |-> "absent", v |-> ""]],
           [kind |-> "text", detail |-> [t |-> "absent", v |-> ""]],
           [kind |-> "null", detail |-> [t |-> "absent", v |-> ""]]}
            \cup {[kind |-> "object", detail |-> d] : d \in Details}

\* res.ok
ResOk(status) == status >= 200 /\ status <= 299

\* JSON.parse(text) and res.json(): both throw on no text and on text that
\* is not JSON
ParsesAsJson(body) == body.kind \in {"null", "object"}

\* if (data?.detail): the detail is there and truthy
HasDetail(body) ==
  /\ body.kind = "object"
  /\ body.detail.t # "absent"
  /\ ~(body.detail.t = "string" /\ body.detail.v = "")

\* new Error(msg).message: the string conversion of msg
MessageOf(detail) ==
  IF detail.t = "string" THEN <<detail.v>> ELSE <<"[object Object]">>

\* `Request failed: ${res.status}` and `Upload failed: ${res.status}`
GenericMessage(fn, status) ==
  <<IF fn = "request" THEN "Request failed: " ELSE "Upload failed: ", status>>

\* the !res.ok branch of request and of uploadTranscript
ErrorOf(fn, status, body) ==
  [threw |-> TRUE, credentials |-> "include",
   message |-> IF ParsesAsJson(body) /\ HasDetail(body)
                 THEN MessageOf(body.detail) ELSE GenericMessage(fn, status),
   value |-> "none"]

\* the res.ok branch: request returns text ? JSON.parse(text) : {},
\* uploadTranscript returns res.json()
ValueOf(fn, body) ==
  IF fn = "request" /\ body.kind = "empty"
    THEN [threw |-> FALSE, credentials |-> "include", message |-> <<>>,
          value |-> "{}"]
  ELSE IF ParsesAsJson(body)
    THEN [threw |-> FALSE, credentials |-> "include", message |-> <<>>,
          value |-> body.kind]
    ELSE [threw |-> TRUE, credentials |-> "include",
          message |-> <<"SyntaxError">>, value |-> "none"]

\* what the caller of fn gets for a response with this status and body
Outcome_(fn, status, body) ==
  IF ResOk(status) THEN ValueOf(fn, body) ELSE ErrorOf(fn, status, body)

\* fetch resolves and the client function runs to its end
Respond ==
  /\ reqIn # NoRequest
  /\ reqOut = NoRequest
  /\ reqOut' = Outcome_(reqIn.fn, reqIn.status, reqIn.body)
  /\ UNCHANGED <<panelVars, reviewVars, route, gate, session, user, workspaces,
                 srvWorkspaces, meetings, members, reqIn>>

\* a call of request or uploadTranscript whose fetch has been answered with
\* any status and body
RequestInit ==
  /\ meetingId = 0
  /\ mounted = TRUE
  /\ extractions = <<>>
  /\ selectedExtractionId = 0
  /\ items = <<>>
  /\ loadingExtractions = FALSE
  /\ starting = FALSE
  /\ pollRef = NoTimer
  /\ timers = {}
  /\ calls = EmptyBag
  /\ order = "asc"
  /\ events = 0
  /\ hist = [switched |-> FALSE, failed |-> FALSE]
  /\ srvRuns = [r \in Runs |-> [mid |-> 0, status |-> "none"]]
  /\ workspaceId = 1
  /\ busyIds = [i \in ItemIds |-> FALSE]
  /\ reviewFilter = "pending"
  /\ tasks = <<>>
  /\ srvTasks = <<>>
  /\ srvItems = [i \in ItemIds |-> "absent"]
  /\ approveResult = [i \in ItemIds |-> "none"]
  /\ lastDone = NoRecord
  /\ clicks = 0
  /\ AppLoaded
  /\ reqIn \in [fn : ApiFns, status : Statuses, body : Bodies]
  /\ reqOut = NoRequest

RequestNext == Respond

RequestSpec == RequestInit /\ [][RequestNext]_vars

\* ------------------------------------------------- task list: done and undo
TaskIds == 1..MaxTasks

TaskStatuses == {"todo", "in_progress", "done"}

\* the position of the task with this id in a task list, 0 when it has none
RECURSIVE FindTask(_, _, _)
FindTask(ts, taskId, k) ==
  IF k > Len(ts) THEN 0
  ELSE IF ts[k].id = taskId THEN k
  ELSE FindTask(ts, taskId, k + 1)

\* const canUndo = !!lastDone
canUndo == lastDone # NoRecord

\* mutant: the sidebar offers Done for every task
todoTasks_All == tasks

\* const todoTasks = tasks.filter((t) => t.status !== "done")
todoTasks == SelectSeq(tasks, LAMBDA t : t.status # "done")

\* mutant: handleMarkDone records nothing when it is called
DoneRecord_None(taskId, current) == NoRecord

\* setLastDone({ taskId, prevStatus: current.status })
DoneRecord(taskId, current) == [taskId |-> taskId, prevStatus |-> current.status]

\* handleMarkDone or handleUndo suspended at `await api.patchTask(...)`:
\* status is the body of the request, updated the task the response carries,
\* before the task list, the undo record and the number of button presses
\* when the handler was called, and whether nothing was in flight then
TaskCall(op, taskId, status, st, updated, before) ==
  [op |-> op, pc |-> "patchTask", taskId |-> taskId, status |-> status,
   st |-> st, updated |-> updated, before |-> before]

\* PATCH /tasks/{id} : the server applies the patch and answers with the task
SendPatchTask(op, taskId, status) ==
  \E st \in Answers :
    LET k == FindTask(srvTasks, taskId, 1)
        after == IF st = "ok" THEN [srvTasks EXCEPT ![k].status = status]
                 ELSE srvTasks
    IN /\ k # 0
       /\ Budget(st)
       /\ srvTasks' = after
       /\ calls' = Add(calls, TaskCall(op, taskId, status, st,
                                       IF st = "ok" THEN after[k] ELSE NoRaw,
                                       [tasks |-> tasks, lastDone |-> lastDone,
                                        clicks |-> clicks,
                                        alone |-> calls = EmptyBag]))

\* a task button is pressed
TaskClick == clicks < MaxTaskClicks /\ clicks' = clicks + 1

\* the Done button of a task the sidebar lists: handleMarkDone(taskId) up to
\* its await
MarkDone(taskId) ==
  /\ TaskClick
  /\ \E k \in 1..Len(todoTasks) : todoTasks[k].id = taskId
  /\ LET k == FindTask(tasks, taskId, 1)
     IN /\ k # 0
        /\ lastDone' = DoneRecord(taskId, tasks[k])
  /\ SendPatchTask("markDone", taskId, "done")
  /\ UNCHANGED <<appVars, panelRest, workspaceId, busyIds, reviewFilter, tasks,
                 srvItems, approveResult>>

\* the Undo button (disabled unless canUndo): handleUndo up to its await
Undo ==
  /\ TaskClick
  /\ canUndo
  /\ SendPatchTask("undo", lastDone.taskId, lastDone.prevStatus)
  /\ UNCHANGED <<appVars, panelRest, workspaceId, busyIds, reviewFilter, tasks,
                 srvItems, approveResult, lastDone>>

\* mutant: the response replaces every task of the list
ReplaceTask_All(prev, taskId, updated) == [k \in 1..Len(prev) |-> updated]

\* setTasks((prev) => prev.map((t) => (t.id === taskId ? updated : t)))
ReplaceTask(prev, taskId, updated) ==
  [k \in 1..Len(prev) |-> IF prev[k].id = taskId THEN updated ELSE prev[k]]

\* handleMarkDone or handleUndo resumes after `await api.patchTask(...)`; a
\* rejection leaves the handler at once
TaskDeliver(c) ==
  /\ BagIn(c, calls)
  /\ c.op \in {"markDone", "undo"}
  /\ calls' = Del(calls, c)
  /\ tasks' = IF c.st = "ok" THEN ReplaceTask(tasks, c.taskId, c.updated) ELSE tasks
  /\ lastDone' = IF c.st = "ok" /\ c.op = "undo" THEN NoRecord ELSE lastDone
  /\ UNCHANGED <<appVars, panelRest, workspaceId, busyIds, reviewFilter, srvTasks,
                 srvItems, approveResult, clicks, events>>

\* The task list starts loaded: a workspace is active, the server holds one
\* to MaxTasks tasks of any status, and the client has listed them.
TaskInit ==
  /\ meetingId = 0
  /\ mounted = TRUE
  /\ extractions = <<>>
  /\ selectedExtractionId = 0
  /\ items = <<>>
  /\ loadingExtractions = FALSE
  /\ starting = FALSE
  /\ pollRef = NoTimer
  /\ timers = {}
  /\ calls = EmptyBag
  /\ order = "asc"
  /\ events = 0
  /\ hist = [switched |-> FALSE, failed |-> FALSE]
  /\ srvRuns = [r \in Runs |-> [mid |-> 0, status |-> "none"]]
  /\ workspaceId = 1
  /\ busyIds = [i \in ItemIds |-> FALSE]
  /\ reviewFilter = "pending"
  /\ \E n \in TaskIds : \E f \in [1..n -> TaskStatuses] :
       srvTasks = [k \in 1..n |-> [id |-> k, workspace_id |-> 1, title |-> k,
                                   status |-> f[k]]]
  /\ tasks = srvTasks
  /\ srvItems = [i \in ItemIds |-> "absent"]
  /\ approveResult = [i \in ItemIds |-> "none"]
  /\ lastDone = NoRecord
  /\ clicks = 0
  /\ AppIdle

TaskNext ==
  \/ \E taskId \in TaskIds : MarkDone(taskId)
  \/ Undo
  \/ \E c \in BagToSet(calls) : TaskDeliver(c)

TaskSpec == TaskInit /\ [][TaskNext]_vars

\* ------------------------------------------------------- routes and App
\* the workspace ids the server ever hands out
WorkspaceIds == 1..MaxWorkspaces

\* GET /tasks?workspace_id=w : the tasks of the workspace, as the server
\* holds them when the request arrives
ServerListTasks(w) == SelectSeq(srvTasks, LAMBDA t : t.workspace_id = w)

\* what a response carries besides its status: meetings, tasks, members,
\* workspaces, and, for logout, how many logout requests the press has sent
NoData == [ms |-> <<>>, ts |-> <<>>, mem |-> <<>>, all |-> <<>>, n |-> 0]

\* an async function of ProtectedRoute, App, Header or LoginPage suspended
\* at an await: op is the function, pc the request awaited, ws the workspace
\* id its closure holds
AppCall(op, pc, ws, st, d) ==
  [op |-> op, pc |-> pc, ws |-> ws, st |-> st, ms |-> d.ms, ts |-> d.ts,
   mem |-> d.mem, all |-> d.all, n |-> d.n]

\* GET /auth/me succeeds exactly when the session cookie is valid
MeAnswer(s) == IF s THEN "ok" ELSE "err"

\* mutant: ProtectedRoute lets the view through whatever /auth/me answers
GateAfter_Open(st) == "ok"

\* .then(() => setOk(true)).catch(() => setOk(false))
GateAfter(st) == IF st = "ok" THEN "ok" ELSE "denied"

\* the panel's state variables, all but the meetingId prop
panelUi == <<mounted, extractions, selectedExtractionId, items,
             loadingExtractions, starting, pollRef, timers>>

\* what no function of the App touches
appRest == <<srvRuns, order, hist, busyIds, reviewFilter, srvItems,
             approveResult, reqIn, reqOut>>

\* setSelectedMeetingId(m): the panel gets a new meetingId prop and its
\* meetingId effect calls refreshExtractions; calls2 are the calls the
\* handler leaves in flight
SetSelectedMeeting(m, calls2) ==
  IF m = meetingId
    THEN /\ calls' = calls2
         /\ UNCHANGED <<meetingId, panelUi>>
  ELSE IF m = 0
    THEN Commit(m, <<>>, 0, items, loadingExtractions, starting, calls2)
    ELSE Commit(m, extractions, selectedExtractionId, items, TRUE, starting,
                Add(calls2, Call("effExt", "listExt", m, selectedExtractionId, 0, 0)))

\* setActiveWorkspaceId(w) and the render that follows: the
\* activeWorkspaceId effect runs when the id changed; with a workspace it
\* awaits Promise.all([listMeetings, listTasks]); rest are the calls the
\* handler leaves in flight
SetActiveWorkspace(w, rest) ==
  /\ workspaceId' = w
  /\ IF w = workspaceId
       THEN /\ calls' = rest
            /\ UNCHANGED <<events, meetings, tasks, members, meetingId, panelUi>>
     ELSE IF w = 0
       THEN /\ meetings' = <<>>
            /\ tasks' = <<>>
            /\ members' = <<>>
            /\ SetSelectedMeeting(0, rest)
            /\ UNCHANGED events
       ELSE \E st \in Answers :
              /\ Budget(st)
              /\ calls' = Add(rest, AppCall("load", "lists", w, st,
                                 [NoData EXCEPT !.ms = MeetingsOf(w), !.ts = ServerListTasks(w)]))
              /\ UNCHANGED <<meetings, tasks, members, meetingId, panelUi>>

\* ProtectedRoute resumes after api.me(): it renders its children, where
\* App mounts and its first effect calls api.me(), or it renders
\* <Navigate to="/login" replace /> and is gone
GateDeliver(c) ==
  /\ BagIn(c, calls)
  /\ c.op = "gate"
  /\ IF GateAfter(c.st) = "ok"
       THEN /\ gate' = "ok"
            /\ route' = route
            /\ mounted' = TRUE
            /\ calls' = Add(Del(calls, c),
                            AppCall("boot", "me", 0, MeAnswer(session), NoData))
       ELSE /\ gate' = "none"
            /\ route' = "login"
            /\ mounted' = mounted
            /\ calls' = Del(calls, c)
  /\ UNCHANGED <<session, user, workspaces, srvWorkspaces, meetings, members,
                 workspaceId, meetingId, extractions, selectedExtractionId, items,
                 loadingExtractions, starting, pollRef, timers, tasks, srvTasks,
                 lastDone, clicks, events, appRest>>

\* an App or login button is pressed
AppClick == clicks < MaxAppClicks /\ clicks' = clicks + 1

\* LoginPage.submit: api.login sets the session cookie, navigate("/app")
\* mounts a ProtectedRoute, whose effect calls api.me()
Login ==
  /\ route = "login"
  /\ AppClick
  /\ session' = TRUE
  /\ route' = "app"
  /\ gate' = "pending"
  /\ calls' = Add(calls, AppCall("gate", "me", 0, MeAnswer(TRUE), NoData))
  /\ UNCHANGED <<user, workspaces, srvWorkspaces, meetings, members, workspaceId,
                 meetingId, panelUi, tasks, srvTasks, lastDone, events, appRest>>

\* the initial workspace: the one localStorage names when the user has it,
\* else the first, else none
InitialWorkspace(saved, ws) ==
  IF saved # 0 /\ \E k \in 1..Len(ws) : ws[k] = saved THEN saved
  ELSE IF Len(ws) > 0 THEN ws[1]
  ELSE 0

\* App's first effect resumes after api.me(): setUser(me), refreshInvites(),
\* then it awaits api.listWorkspaces(); a rejection ends it
BootDeliverMe(c) ==
  /\ BagIn(c, calls)
  /\ c.op = "boot" /\ c.pc = "me"
  /\ IF c.st = "ok"
       THEN \E st \in Answers :
              /\ Budget(st)
              /\ user' = 1
              /\ calls' = Add(Del(calls, c),
                              AppCall("boot", "listWorkspaces", 0, st,
                                      [NoData EXCEPT !.all = srvWorkspaces]))
       ELSE /\ calls' = Del(calls, c)
            /\ UNCHANGED <<user, events>>
  /\ UNCHANGED <<route, gate, session, workspaces, srvWorkspaces, meetings,
                 members, workspaceId, meetingId, panelUi, tasks, srvTasks,
                 lastDone, clicks, appRest>>

\* App's first effect resumes after api.listWorkspaces():
\* setWorkspaces(ws), setActiveWorkspaceId(initial)
BootDeliverWorkspaces(c) ==
  /\ BagIn(c, calls)
  /\ c.op = "boot" /\ c.pc = "listWorkspaces"
  /\ IF c.st = "ok"
       THEN /\ workspaces' = c.all
            /\ \E saved \in WorkspaceIds \cup {0} :
                 SetActiveWorkspace(InitialWorkspace(saved, c.all), Del(calls, c))
       ELSE /\ calls' = Del(calls, c)
            /\ UNCHANGED <<workspaces, workspaceId, events, meetings, tasks,
                           members, meetingId, panelUi>>
  /\ UNCHANGED <<route, gate, session, user, srvWorkspaces, srvTasks, lastDone,
                 clicks, appRest>>

\* the effect's async function resumes after Promise.all([...]):
\* setMeetings(ms), setTasks(ts), then refreshWorkspaceMembers awaits
\* api.listWorkspaceMembers
LoadDeliverLists(c) ==
  /\ BagIn(c, calls)
  /\ c.op = "load" /\ c.pc = "lists"
  /\ IF c.st = "ok"
       THEN \E st \in Answers :
              /\ Budget(st)
              /\ meetings' = c.ms
              /\ tasks' = c.ts
              /\ calls' = Add(Del(calls, c),
                              AppCall("load", "members", c.ws, st,
                                      [NoData EXCEPT !.ms = c.ms,
                                                     !.mem = MembersOf(c.ws)]))
       ELSE /\ calls' = Del(calls, c)
            /\ UNCHANGED <<meetings, tasks, events>>
  /\ UNCHANGED <<route, gate, session, user, workspaces, srvWorkspaces, members,
                 workspaceId, meetingId, panelUi, srvTasks, lastDone, clicks,
                 appRest>>

\* refreshWorkspaceMembers resumes: setMembers(ms), or setMembers([]) in its
\* catch; then the effect selects the first meeting it listed, or none
LoadDeliverMembers(c) ==
  /\ BagIn(c, calls)
  /\ c.op = "load" /\ c.pc = "members"
  /\ members' = IF c.st = "ok" THEN c.mem ELSE <<>>
  /\ SetSelectedMeeting(IF Len(c.ms) > 0 THEN c.ms[1].id ELSE 0, Del(calls, c))
  /\ UNCHANGED <<route, gate, session, user, workspaces, srvWorkspaces, meetings,
                 workspaceId, tasks, srvTasks, lastDone, clicks, events, appRest>>

\* the workspace picker of the sidebar: handleChangeWorkspace(id)
ChangeWorkspace(w) ==
  /\ Rendered
  /\ AppClick
  /\ \E k \in 1..Len(workspaces) : workspaces[k] = w
  /\ w # workspaceId
  /\ lastDone' = NoRecord
  /\ SetActiveWorkspace(w, calls)
  /\ UNCHANGED <<route, gate, session, user, workspaces, srvWorkspaces, srvTasks,
                 appRest>>

\* the create-group dialog: handleCreateGroup up to
\* `await api.createWorkspace(groupName)`; the server stores the workspace
CreateGroup ==
  /\ Rendered
  /\ AppClick
  /\ Len(srvWorkspaces) < MaxWorkspaces
  /\ \E st \in Answers :
       LET id == Len(srvWorkspaces) + 1
       IN /\ Budget(st)
          /\ srvWorkspaces' = IF st = "ok" THEN Append(srvWorkspaces, id)
                              ELSE srvWorkspaces
          /\ calls' = Add(calls, AppCall("create", "createWorkspace", id, st, NoData))
  /\ UNCHANGED <<route, gate, session, user, workspaces, meetings, members,
                 workspaceId, meetingId, panelUi, tasks, srvTasks, lastDone,
                 appRest>>

\* handleCreateGroup resumes after createWorkspace: the invites are sent,
\* then it awaits api.listWorkspaces()
CreateDeliverWorkspace(c) ==
  /\ BagIn(c, calls)
  /\ c.op = "create" /\ c.pc = "createWorkspace"
  /\ IF c.st = "ok"
       THEN \E st \in Answers :
              /\ Budget(st)
              /\ calls' = Add(Del(calls, c),
                              AppCall("create", "listWorkspaces", c.ws, st,
                                      [NoData EXCEPT !.all = srvWorkspaces]))
       ELSE /\ calls' = Del(calls, c)
            /\ UNCHANGED events
  /\ UNCHANGED <<route, gate, session, user, workspaces, srvWorkspaces, meetings,
                 members, workspaceId, meetingId, panelUi, tasks, srvTasks,
                 lastDone, clicks, appRest>>

\* handleCreateGroup resumes after listWorkspaces: setWorkspaces(all),
\* setActiveWorkspaceId(ws.id); lastDone is not touched
CreateDeliverList(c) ==
  /\ BagIn(c, calls)
  /\ c.op = "create" /\ c.pc = "listWorkspaces"
  /\ IF c.st = "ok"
       THEN /\ workspaces' = c.all
            /\ SetActiveWorkspace(c.ws, Del(calls, c))
       ELSE /\ calls' = Del(calls, c)
            /\ UNCHANGED <<workspaces, workspaceId, events, meetings, tasks,
                           members, meetingId, panelUi>>
  /\ UNCHANGED <<route, gate, session, user, srvWorkspaces, srvTasks, lastDone,
                 clicks, appRest>>

\* an invitation is accepted: handleAcceptInvite(id) up to
\* `await api.acceptInvite(id)`; the server makes the caller a member of one
\* more workspace; the closure holds the active workspace of the press
AcceptInvite ==
  /\ Rendered
  /\ AppClick
  /\ Len(srvWorkspaces) < MaxWorkspaces
  /\ \E st \in Answers :
       /\ Budget(st)
       /\ srvWorkspaces' = IF st = "ok"
                             THEN Append(srvWorkspaces, Len(srvWorkspaces) + 1)
                             ELSE srvWorkspaces
       /\ calls' = Add(calls, AppCall("accept", "acceptInvite", workspaceId, st, NoData))
  /\ UNCHANGED <<route, gate, session, user, workspaces, meetings, members,
                 workspaceId, meetingId, panelUi, tasks, srvTasks, lastDone,
                 appRest>>

\* handleAcceptInvite resumes after acceptInvite: refreshInvites(), then it
\* awaits api.listWorkspaces()
AcceptDeliverInvite(c) ==
  /\ BagIn(c, calls)
  /\ c.op = "accept" /\ c.pc = "acceptInvite"
  /\ IF c.st = "ok"
       THEN \E st \in Answers :
              /\ Budget(st)
              /\ calls' = Add(Del(calls, c),
                              AppCall("accept", "listWorkspaces", c.ws, st,
                                      [NoData EXCEPT !.all = srvWorkspaces]))
       ELSE /\ calls' = Del(calls, c)
            /\ UNCHANGED events
  /\ UNCHANGED <<route, gate, session, user, workspaces, srvWorkspaces, meetings,
                 members, workspaceId, meetingId, panelUi, tasks, srvTasks,
                 lastDone, clicks, appRest>>

\* handleAcceptInvite resumes after listWorkspaces: setWorkspaces(ws), and
\* if (!activeWorkspaceId && ws.length > 0) setActiveWorkspaceId(ws[0].id)
AcceptDeliverList(c) ==
  /\ BagIn(c, calls)
  /\ c.op = "accept" /\ c.pc = "listWorkspaces"
  /\ IF c.st = "ok"
       THEN /\ workspaces' = c.all
            /\ SetActiveWorkspace(IF c.ws = 0 /\ Len(c.all) > 0 THEN c.all[1]
                                  ELSE workspaceId, Del(calls, c))
       ELSE /\ calls' = Del(calls, c)
            /\ UNCHANGED <<workspaces, workspaceId, events, meetings, tasks,
                           members, meetingId, panelUi>>
  /\ UNCHANGED <<route, gate, session, user, srvWorkspaces, srvTasks, lastDone,
                 clicks, appRest>>

\* POST /auth/logout : the server ends the session when it answers 2xx
SendLogout(rest, pc, n) ==
  \E st \in Answers :
    /\ Budget(st)
    /\ session' = IF st = "ok" THEN FALSE ELSE session
    /\ calls' = Add(rest, AppCall("logout", pc, workspaceId, st,
                                  [NoData EXCEPT !.n = n]))

\* the "Log out" button of the header: Header.handleLogout up to
\* `await api.logout()`
Logout ==
  /\ Rendered
  /\ AppClick
  /\ SendLogout(calls, "header", 1)
  /\ UNCHANGED <<route, gate, user, workspaces, srvWorkspaces, meetings, members,
                 workspaceId, meetingId, panelUi, tasks, srvTasks, lastDone,
                 appRest>>

\* Header.handleLogout resumes: onLogout() is App.handleLogout, which runs up
\* to its own `await api.logout()`; when the header's request rejected the
\* handler has thrown and onLogout is not called
LogoutDeliverHeader(c) ==
  /\ BagIn(c, calls)
  /\ c.op = "logout" /\ c.pc = "header"
  /\ IF c.st = "ok"
       THEN SendLogout(Del(calls, c), "app", c.n + 1)
       ELSE /\ calls' = Del(calls, c)
            /\ UNCHANGED <<session, events>>
  /\ UNCHANGED <<route, gate, user, workspaces, srvWorkspaces, meetings, members,
                 workspaceId, meetingId, panelUi, tasks, srvTasks, lastDone,
                 clicks, appRest>>

\* App.handleLogout resumes, whatever the answer: setUser(null),
\* navigate("/login").  ProtectedRoute, App and the panel unmount: their state
\* is gone (a later mount starts from the initial values), the cleanup of the
\* polling effect runs, and the responses still awaited set nothing.
LogoutDeliverApp(c) ==
  /\ BagIn(c, calls)
  /\ c.op = "logout" /\ c.pc = "app"
  /\ user' = 0
  /\ route' = "login"
  /\ gate' = "none"
  /\ calls' = EmptyBag
  /\ workspaces' = <<>>
  /\ workspaceId' = 0
  /\ meetings' = <<>>
  /\ members' = <<>>
  /\ tasks' = <<>>
  /\ lastDone' = NoRecord
  /\ meetingId' = 0
  /\ mounted' = FALSE
  /\ extractions' = <<>>
  /\ selectedExtractionId' = 0
  /\ items' = <<>>
  /\ loadingExtractions' = FALSE
  /\ starting' = FALSE
  /\ pollRef' = NoTimer
  /\ timers' = {}
  /\ UNCHANGED <<session, srvWorkspaces, srvTasks, clicks, events, appRest>>

\* The browser has opened /app: ProtectedRoute has mounted and awaits
\* api.me(); the session cookie is valid or not.  The server holds two
\* workspaces of the caller and one open task in each.
AppInit ==
  /\ route = "app"
  /\ gate = "pending"
  /\ session \in BOOLEAN
  /\ user = 0
  /\ workspaces = <<>>
  /\ srvWorkspaces = <<1, 2>>
  /\ meetings = <<>>
  /\ members = <<>>
  /\ reqIn = NoRequest
  /\ reqOut = NoRequest
  /\ meetingId = 0
  /\ mounted = FALSE
  /\ extractions = <<>>
  /\ selectedExtractionId = 0
  /\ items = <<>>
  /\ loadingExtractions = FALSE
  /\ starting = FALSE
  /\ pollRef = NoTimer
  /\ timers = {}
  /\ calls = SetToBag({AppCall("gate", "me", 0, MeAnswer(session), NoData)})
  /\ order = "asc"
  /\ events = 0
  /\ hist = [switched |-> FALSE, failed |-> FALSE]
  /\ srvRuns = [r \in Runs |-> [mid |-> 0, status |-> "none"]]
  /\ workspaceId = 0
  /\ busyIds = [i \in ItemIds |-> FALSE]
  /\ reviewFilter = "pending"
  /\ tasks = <<>>
  /\ srvTasks = [k \in TaskIds |-> [id |-> k, workspace_id |-> 2 - (k % 2),
                                    title |-> k, status |-> "todo"]]
  /\ srvItems = [i \in ItemIds |-> "absent"]
  /\ approveResult = [i \in ItemIds |-> "none"]
  /\ lastDone = NoRecord
  /\ clicks = 0

AppNext ==
  \/ \E c \in BagToSet(calls) : GateDeliver(c)
  \/ Login
  \/ \E c \in BagToSet(calls) : BootDeliverMe(c)
  \/ \E c \in BagToSet(calls) : BootDeliverWorkspaces(c)
  \/ \E c \in BagToSet(calls) : LoadDeliverLists(c)
  \/ \E c \in BagToSet(calls) : LoadDeliverMembers(c)
  \/ \E w \in WorkspaceIds : ChangeWorkspace(w)
  \/ CreateGroup
  \/ \E c \in BagToSet(calls) : CreateDeliverWorkspace(c)
  \/ \E c \in BagToSet(calls) : CreateDeliverList(c)
  \/ AcceptInvite
  \/ \E c \in BagToSet(calls) : AcceptDeliverInvite(c)
  \/ \E c \in BagToSet(calls) : AcceptDeliverList(c)
  \/ \E taskId \in TaskIds : Rendered /\ clicks < MaxAppClicks /\ MarkDone(taskId)
  \/ Rendered /\ clicks < MaxAppClicks /\ Undo
  \/ \E c \in BagToSet(calls) : TaskDeliver(c)
  \/ \E c \in BagToSet(calls) : c.op = "effExt" /\ Deliver(c)
  \/ Logout
  \/ \E c \in BagToSet(calls) : LogoutDeliverHeader(c)
  \/ \E c \in BagToSet(calls) : LogoutDeliverApp(c)

AppSpec == AppInit /\ [][AppNext]_vars

\* ================================================================ claims
Held == ActiveStatus(extractions, selectedExtractionId)

\* call c has just been sent in this step
Sent(c) == c.st = "ok" /\ CopiesIn(c, calls') > CopiesIn(c, calls)

\* the response of call c has just been delivered in this step
Delivered(c) ==
  /\ BagIn(c, calls)
  /\ CopiesIn(c, calls') < CopiesIn(c, calls)
  /\ events' = events

\* the status the client holds for run r ("none" when r is not in the list)
StatusOf(exts, r) == ActiveStatus(exts, r)

\* C1 (as amended): a poll tick starts (the interval callback issues its
\* run-list request) only in a state where the client holds the timer's run
\* as the selected run with status processing and that timer is the armed one.
C1_TickOnlyWhileProcessing ==
  [][\A t \in timers :
       Tick(t) => /\ selectedExtractionId = t.sel
                  /\ Held = "processing"
                  /\ pollRef = t]_vars

\* C1 as stated: once the client holds a terminal status for the selected run
\* or the selection has changed, the timer's ticks issue no run-list and no
\* item-list request.
C1_NoRequestAfterTerminal ==
  [][\A c \in BagToSet(calls') :
       (c.op = "tick" /\ Sent(c)) =>
         (selectedExtractionId = c.sel /\ Held = "processing")]_vars

\* C1 witness: a tick is still awaiting its response while the client already
\* holds a terminal status for the tick's run and no interval is armed.
C1_Witness ==
  /\ timers = {}
  /\ Held \in Terminal
  /\ \E c \in BagToSet(calls) : c.op = "tick" /\ c.sel = selectedExtractionId

\* C2: at most one interval is armed; one is armed exactly when the panel is
\* mounted and the selected run is in the run list with status processing,
\* and it is the one pollRef holds, armed for the selected run.
C2_TimerIffProcessing ==
  /\ Cardinality(timers) <= 1
  /\ (timers # {}) <=> (mounted /\ Held = "processing")
  /\ timers = IF pollRef = NoTimer THEN {} ELSE {pollRef}
  /\ \A t \in timers : t.sel = selectedExtractionId

\* C2 witness: the panel was torn down while the selected run was processing
\* and no interval is left.
C2_Witness == ~mounted /\ Held = "processing" /\ timers = {}

\* C3: when startExtraction for the current meeting completes successfully
\* (its last refreshItems returns), the selected run is the run the start
\* request returned.
C3_StartSelectsNewRun ==
  [][\A c \in BagToSet(calls) :
       (c.op = "start" /\ c.pc = "finalItems" /\ c.st = "ok" /\ Delivered(c)
          /\ mounted /\ meetingId = c.mid /\ ~hist.failed)
       => selectedExtractionId' = c.ext]_vars

\* nothing is pending: no request in flight and no interval armed
Quiescent == calls = EmptyBag /\ timers = {}

\* the first run of the run list the server holds for meeting m, 0 if none
FirstRunOf(m) ==
  IF m = 0 \/ ServerListExtractions(m) = <<>> THEN 0
  ELSE ServerListExtractions(m)[1].id

\* C4: after a switch of the meeting, once no request is in flight (and no
\* poll is armed that could still change the selection), the selected run is
\* the first run of the new meeting's list, or there is no selected run and
\* no item when it has none.
C4_SwitchSelectsFirst ==
  (mounted /\ hist.switched /\ ~hist.failed /\ Quiescent) =>
     /\ selectedExtractionId = FirstRunOf(meetingId)
     /\ (FirstRunOf(meetingId) = 0 => items = <<>>)

\* C5: when a run-list refresh returns, the selection becomes the first run
\* of the list (or none) if the list lacks the currently selected id, and is
\* unchanged if the list contains it.
C5_FallbackOnCurrentSelection ==
  [][\A c \in BagToSet(calls) :
       (c.pc = "listExt" /\ c.st = "ok" /\ Delivered(c) /\ mounted) =>
         selectedExtractionId' =
           IF selectedExtractionId # 0 /\ selectedExtractionId \in Ids(c.exts)
             THEN selectedExtractionId
             ELSE IF c.exts = <<>> THEN 0 ELSE c.exts[1].id]_vars

\* C6: when the run-list response of a poll tick is delivered, a run the
\* client holds as complete or failed is not held as processing afterwards.
C6_StatusOnlyForward ==
  [][\A c \in BagToSet(calls) : \A r \in Runs :
       (c.op = "tick" /\ c.pc = "listExt" /\ Delivered(c)
          /\ StatusOf(extractions, r) \in Terminal)
       => StatusOf(extractions', r) # "processing"]_vars

C8_ItemsOfSelectedRun ==
  (mounted /\ ~hist.failed /\ Quiescent) =>
     /\ \A i \in 1..Len(items) : items[i].extraction_id = selectedExtractionId
     /\ (selectedExtractionId = 0 => items = <<>>)

\* C9: when the task creation of an approve, or the task refresh after it,
\* fails, the approve goes on to send the item patch with status approved,
\* has not thrown, and returns normally when that patch succeeds.
C9_ApproveSurvivesTaskFailure ==
  [][\A c \in BagToSet(calls) :
       /\ (c.pc \in {"createTask", "listTasks"} /\ c.st = "err" /\ ReviewDeliver(c))
          => /\ \E d \in BagToSet(calls') :
                  /\ d.pc = "patch" /\ d.item = c.item
                  /\ d.patch.status = "approved" /\ d.taskFailed
             /\ approveResult'[c.item.id] = "running"
       /\ (c.pc = "patch" /\ c.st = "ok" /\ c.taskFailed /\ ReviewDeliver(c))
          => approveResult'[c.item.id] = "returned"]_vars

\* C9 witness: an approve whose task creation failed has returned normally
\* and the server holds the item as approved, with no task for it.
C9_Witness ==
  \E i \in ItemIds :
    /\ KindOf(i) = "action_item" /\ workspaceId # 0
    /\ approveResult[i] = "returned"
    /\ srvItems[i] = "approved"
    /\ srvTasks = <<>>
    /\ events > 0

\* the tasks the server holds that were created from item i
TasksOf(i) == {k \in 1..Len(srvTasks) : srvTasks[k].title = i}

InMemory(k) == \E j \in 1..Len(tasks) : tasks[j] = srvTasks[k]

\* C10: for every action item on which every approve so far has returned,
\* either exactly one task was created for it and is in the in-memory task
\* list, or none was created and the server holds the item as approved;
\* stated for the sequences of approves in which no request failed.
C10_OneTaskOrApproved ==
  \A i \in ItemIds :
    (KindOf(i) = "action_item" /\ workspaceId # 0 /\ events = 0
       /\ approveResult[i] = "returned" /\ calls = EmptyBag)
    => \/ Cardinality(TasksOf(i)) = 1 /\ \A k \in TasksOf(i) : InMemory(k)
       \/ TasksOf(i) = {} /\ srvItems[i] = "approved"

\* the review calls in flight for item i
CallsOn(i) == {c \in BagToSet(calls) : c.item.id = i}

\* review call c is in flight after this step and was not before it
Started(c) == BagIn(c, calls') /\ CopiesIn(c, calls') > CopiesIn(c, calls)

\* C11: every item patch an approve sends carries status approved,
\* needs_review false, review_reasons null and edit_reason human_approved and
\* is sent when no task creation or task refresh of that approve is pending;
\* an approve ends only when its item patch is answered; a task-creation
\* request is sent only for an action_item while a workspace is active.
C11_ApproveSendsOnePatch ==
  [][/\ \A c \in BagToSet(calls') :
          (c.op = "approve" /\ c.pc = "patch" /\ Started(c)) =>
            /\ c.patch = [status |-> "approved", needs_review |-> FALSE,
                          review_reasons |-> NullList,
                          edit_reason |-> "human_approved"]
            /\ \A d \in BagToSet(calls') :
                 d.item.id = c.item.id => d = c /\ CopiesIn(d, calls') = 1
     /\ \A c \in BagToSet(calls') :
          (c.pc = "createTask" /\ Started(c)) =>
            c.item.kind = "action_item" /\ workspaceId # 0
     /\ \A i \in ItemIds :
          (approveResult[i] = "running" /\ approveResult'[i] # "running") =>
            \E c \in CallsOn(i) :
              c.op = "approve" /\ c.pc = "patch" /\ ~BagIn(c, calls')]_vars

\* C11 witness: the item patch of an approve is in flight after its task was
\* created and the task list refreshed.
C11_Witness ==
  \E c \in BagToSet(calls) :
    /\ c.op = "approve" /\ c.pc = "patch" /\ c.item.kind = "action_item"
    /\ srvTasks # <<>> /\ tasks = srvTasks

\* C12: for every answer of the reason prompt, reject sends one patch with
\* status rejected, needs_review true, and review_reasons [reason] when the
\* answer is a non-empty text and ["human_rejected"] otherwise.
C12_RejectPatch ==
  [][\A i \in ItemIds : \A answer \in PromptAnswers :
       Reject(i, answer) =>
         \E c \in BagToSet(calls') :
           /\ Started(c) /\ c.op = "reject" /\ c.pc = "patch" /\ c.item.id = i
           /\ c.patch.status = "rejected"
           /\ c.patch.needs_review = TRUE
           /\ c.patch.review_reasons =
                IF answer \in {<<>>, <<"">>} THEN List(<<"human_rejected">>)
                ELSE List(answer)]_vars

\* C12 witness: a reject answered with the empty text is in flight.
C12_Witness ==
  \E c \in BagToSet(calls) :
    /\ c.op = "reject" /\ c.patch.edit_reason = ""
    /\ c.patch.review_reasons = List(<<"human_rejected">>)

\* busy[i] is true exactly while a review call on item i is in flight
BusyWhileInFlight == \A i \in ItemIds : busyIds[i] <=> CallsOn(i) # {}

\* C13: after every step busy[i] is true exactly for the items with a review
\* call in flight, and a step changes busy[j] only for the item j whose call
\* it starts or ends.
C13_BusyPerItem ==
  [][/\ BusyWhileInFlight'
     /\ \A j \in ItemIds :
          busyIds'[j] # busyIds[j] =>
            \/ \E c \in BagToSet(calls') : Started(c) /\ c.item.id = j
            \/ \E c \in CallsOn(j) : c.pc = "patch" /\ ~BagIn(c, calls')]_vars

\* C13 witness: a call on one item has failed and left it not busy while a
\* call on another item is in flight.
C13_Witness ==
  \E i, j \in ItemIds :
    /\ i # j /\ busyIds[i] /\ ~busyIds[j]
    /\ approveResult[j] = "threw"

\* C14: no item ever has two review calls in flight; while busy[i] is true
\* no approve, reject or edit can be started on item i, and an action on a
\* rendered item j whose busy[j] is false can be started whatever is in flight
\* for the other items.
C14_OneMutationPerItem ==
  /\ \A i \in ItemIds :
       /\ Cardinality(CallsOn(i)) <= 1
       /\ \A c \in CallsOn(i) : CopiesIn(c, calls) = 1
       /\ busyIds[i] =>
            ~ENABLED (\/ Approve(i) \/ Edit(i)
                      \/ \E answer \in PromptAnswers : Reject(i, answer))
  /\ \A j \in ItemIds :
       (/\ ~busyIds[j] /\ clicks < MaxClicks
        /\ \E k \in 1..Len(filteredItems) : filteredItems[k].id = j)
       => ENABLED Edit(j)

\* C14 witness: calls on two different items are in flight together.
C14_Witness ==
  \E i, j \in ItemIds : i # j /\ CallsOn(i) # {} /\ CallsOn(j) # {}

ItemStatuses == {"pending", "approved", "rejected"}

\* C15: every in-memory item has one of the three statuses, an item for which
\* the server holds no status is pending, and normalizeItem maps what the
\* server sends to its status, or to pending when the status is missing.
C15_StatusNormalized ==
  /\ \A k \in 1..Len(items) :
       /\ items[k].status \in ItemStatuses
       /\ srvItems[items[k].id] = "absent" => items[k].status = "pending"
  /\ \A i \in ItemIds :
       normalizeItem(RawItem(i)).status =
         IF srvItems[i] = "absent" THEN "pending" ELSE srvItems[i]

\* C15 witness: one item was replaced by the response of a reject while
\* another is still as the refresh loaded it, the server holding no status.
C15_Witness ==
  \E k, j \in 1..Len(items) :
    /\ items[k].status = "rejected"
    /\ srvItems[items[j].id] = "absent" /\ items[j].status = "pending"

\* the items of its with status s, in the order of its
RECURSIVE WithStatus(_, _)
WithStatus(its, s) ==
  IF its = <<>> THEN <<>>
  ELSE (IF Head(its).status = s THEN <<Head(its)>> ELSE <<>>)
         \o WithStatus(Tail(its), s)

\* C16: the all view is the item list, each status view is the sublist of the
\* items with that status in the order of the list, and every item is in
\* exactly one status view.
C16_FilterViews ==
  /\ FilterView(items, "all") = items
  /\ \A s \in ItemStatuses : FilterView(items, s) = WithStatus(items, s)
  /\ \A k \in 1..Len(items) :
       Cardinality({s \in ItemStatuses :
                      \E j \in 1..Len(FilterView(items, s)) :
                        FilterView(items, s)[j] = items[k]}) = 1
  /\ Len(FilterView(items, "pending")) + Len(FilterView(items, "approved"))
       + Len(FilterView(items, "rejected")) = Len(items)

\* C16 witness: the list holds an approved and a rejected item and the all
\* view is shown.
C16_Witness ==
  /\ reviewFilter = "all"
  /\ \E k, j \in 1..Len(items) :
       items[k].status = "approved" /\ items[j].status = "rejected"

\* C17: markDone on a task of the in-memory list stores the undo record
\* (the task's id, its in-memory status at the call) in the step that sends
\* the request setting the task to done; for an id that is not in the list
\* markDone cannot record or send anything.
C17_RecordBeforeRequest ==
  [][/\ \A t \in TaskIds :
          MarkDone(t) =>
            LET k == FindTask(tasks, t, 1)
            IN /\ k # 0
               /\ lastDone' = [taskId |-> t, prevStatus |-> tasks[k].status]
               /\ \E c \in BagToSet(calls') :
                    /\ Started(c) /\ c.op = "markDone"
                    /\ c.taskId = t /\ c.status = "done"
     /\ \A t \in TaskIds :
          FindTask(tasks, t, 1) = 0 => ~ENABLED MarkDone(t)]_vars

\* C17 witness: the done request of a task that was in progress is in flight
\* with its undo record stored, while some task id is not in the list.
C17_Witness ==
  /\ Len(tasks) < MaxTasks
  /\ \E c \in BagToSet(calls) :
       /\ c.op = "markDone"
       /\ lastDone = [taskId |-> c.taskId, prevStatus |-> "in_progress"]

\* C18: once a markDone of a task that was not done and the undo pressed right
\* after it have both been answered, with every request successful, the task
\* list in memory is the server's task list and undo is disabled.
C18_UndoRestores ==
  (clicks = 2 /\ events = 0 /\ calls = EmptyBag /\ lastDone = NoRecord)
    => tasks = srvTasks

\* C19: markDone replaces whatever record the buffer held; undo acts only on
\* the recorded task, sending it its recorded status and leaving every other
\* task as it is on the server; its successful answer empties the buffer and
\* replaces only that task in memory; undo can be started exactly while the
\* buffer holds a record.
C19_SingleUndoRecord ==
  [][/\ \A t \in TaskIds : MarkDone(t) => lastDone'.taskId = t
     /\ Undo =>
          /\ \E c \in BagToSet(calls') :
               /\ Started(c) /\ c.op = "undo"
               /\ c.taskId = lastDone.taskId /\ c.status = lastDone.prevStatus
               /\ c.st = "ok" =>
                    srvTasks'[FindTask(srvTasks, c.taskId, 1)].status
                      = lastDone.prevStatus
          /\ \A k \in 1..Len(srvTasks) :
               srvTasks[k].id # lastDone.taskId => srvTasks'[k] = srvTasks[k]
     /\ \A c \in BagToSet(calls) :
          (TaskDeliver(c) /\ c.op = "undo" /\ c.st = "ok") =>
            /\ lastDone' = NoRecord
            /\ ~canUndo'
            /\ \A k \in 1..Len(tasks) :
                 IF tasks[k].id = c.taskId THEN tasks'[k].status = c.status
                 ELSE tasks'[k] = tasks[k]
     /\ lastDone = NoRecord => ~ENABLED Undo
     /\ (lastDone # NoRecord /\ clicks < MaxTaskClicks) => ENABLED Undo]_vars

\* C19 witness: markDone(a), markDone(b) and the undo after them are in
\* flight, the undo being for b.
C19_Witness ==
  \E ca, cb, cu \in BagToSet(calls) :
    /\ ca.op = "markDone" /\ cb.op = "markDone" /\ ca.taskId # cb.taskId
    /\ cu.op = "undo" /\ cu.taskId = cb.taskId
    /\ cu.before.lastDone.taskId = cb.taskId

\* C20: when the request of a markDone or undo that ran alone fails, the task
\* list and the undo record are what they were when the handler was called.
C20_FailureLeavesState ==
  [][\A c \in BagToSet(calls) :
       (/\ TaskDeliver(c) /\ c.st = "err"
        /\ c.before.alone /\ c.before.clicks + 1 = clicks
        /\ BagCardinality(calls) = 1)
       => /\ tasks' = c.before.tasks
          /\ lastDone' = c.before.lastDone]_vars

\* the task calls in flight for task t
TaskCallsOn(t) == {c \in BagToSet(calls) : c.taskId = t}

\* C21: no task ever has two markDone or undo requests in flight.
C21_OneMutationPerTask ==
  \A t \in TaskIds :
    /\ Cardinality(TaskCallsOn(t)) <= 1
    /\ \A c \in TaskCallsOn(t) : CopiesIn(c, calls) = 1

\* C26: the status held in the undo record is todo or in_progress, never
\* done, and every undo request asks for a status other than done.
C26_PrevStatusNotDone ==
  /\ lastDone # NoRecord => lastDone.prevStatus \in {"todo", "in_progress"}
  /\ \A c \in BagToSet(calls) : c.op = "undo" => c.status # "done"

\* C26 witness: an undo is in flight for a task that is done in memory and
\* was in progress before.
C26_Witness ==
  \E c \in BagToSet(calls) :
    /\ c.op = "undo" /\ c.status = "in_progress"
    /\ \E k \in 1..Len(tasks) : tasks[k].id = c.taskId /\ tasks[k].status = "done"

\* C27: while the panel is mounted and no request is in flight, every run of
\* the in-memory run list belongs to the selected meeting, and the list is
\* empty when no meeting is selected.
C27_RunsOfSelectedMeeting ==
  (mounted /\ calls = EmptyBag) =>
    /\ \A k \in 1..Len(extractions) : extractions[k].meeting_id = meetingId
    /\ meetingId = 0 => extractions = <<>>

\* C28: in every patch reject sends, review_reasons is the one-element list
\* holding edit_reason.
C28_ReasonsAgree ==
  [][\A c \in BagToSet(calls') :
       (Started(c) /\ c.op = "reject") =>
         c.patch.review_reasons = List(<<c.patch.edit_reason>>)]_vars

\* C29: starting an approve, reject or edit changes no entry of the item
\* list, and the answer to a call on item i leaves the list with the same
\* ids in the same positions and every entry whose id is not i as it was, so
\* a list that does not hold i is left as it is.
C29_OnlyItemReplaced ==
  [][/\ (\E i \in ItemIds :
           \/ Approve(i) \/ Edit(i)
           \/ \E answer \in PromptAnswers : Reject(i, answer))
        => items' = items
     /\ \A c \in BagToSet(calls) :
          (c.op \in {"approve", "reject", "edit"} /\ ReviewDeliver(c)) =>
            /\ Len(items') = Len(items)
            /\ \A k \in 1..Len(items) :
                 /\ items'[k].id = items[k].id
                 /\ items[k].id # c.item.id => items'[k] = items[k]]_vars

\* C29 witness: the successful answer to a patch of item i is on its way
\* while the list, replaced by that of another run, does not hold i.
C29_Witness ==
  \E c \in BagToSet(calls) :
    /\ c.op \in {"approve", "reject", "edit"} /\ c.pc = "patch" /\ c.st = "ok"
    /\ items # <<>>
    /\ \A k \in 1..Len(items) : items[k].id # c.item.id

\* C24: every request is sent with credentials included; a non-2xx response
\* yields an error whose message is the detail of a JSON body when that is a
\* non-empty text and the generic message with the status code when the body
\* has no detail or is not JSON; a 2xx response yields no error, and the
\* empty object when its body is empty.
C24_ResponseTranslation ==
  reqOut # NoRequest =>
    /\ reqOut.credentials = "include"
    /\ ~ResOk(reqIn.status) =>
         /\ reqOut.threw
         /\ (reqIn.body.kind = "object" /\ reqIn.body.detail.t = "string"
               /\ reqIn.body.detail.v # "")
            => reqOut.message = <<reqIn.body.detail.v>>
         /\ (reqIn.body.kind # "object" \/ reqIn.body.detail.t = "absent"
               \/ reqIn.body.detail = [t |-> "string", v |-> ""])
            => /\ Len(reqOut.message) = 2
               /\ reqOut.message[2] = reqIn.status
    /\ ResOk(reqIn.status) =>
         /\ ~reqOut.threw
         /\ reqIn.body.kind = "empty" => reqOut.value = "{}"

\* the calls of ProtectedRoute's effect, and the ones answered in this step
GateCalls == {c \in BagToSet(calls) : c.op = "gate"}

GateAnswered(c) == CopiesIn(c, calls') < CopiesIn(c, calls)

\* C23: the protected view comes on screen only in the step in which
\* ProtectedRoute's GET /auth/me is answered with success; while that request
\* is pending the location stays /app with no view, and nothing but its
\* answer ends the pending state; when it is answered with a failure the
\* location becomes /login and the view is not on screen.
C23_ViewOnlyAfterMe ==
  [][/\ (Rendered' /\ ~Rendered) =>
          \E c \in GateCalls : c.st = "ok" /\ GateAnswered(c)
     /\ gate = "pending" =>
          /\ route = "app" /\ ~Rendered /\ GateCalls # {}
          /\ gate' # "pending" => \E c \in GateCalls : GateAnswered(c)
     /\ \A c \in GateCalls :
          (c.st = "err" /\ GateAnswered(c)) => (route' = "login" /\ ~Rendered')]_vars

\* the view is on screen through a second ProtectedRoute: the first one was
\* refused and redirected to /login, the user logged in, and App has just
\* mounted
C23_Witness ==
  /\ Rendered
  /\ clicks = 1
  /\ events = 0
  /\ session
  /\ srvWorkspaces = <<1, 2>>
  /\ calls = SetToBag({AppCall("boot", "me", 0, "ok", NoData)})

\* C30: a Log out handler that ends has cleared the user and navigated to
\* /login, and the press has sent one logout request.
C30_LogoutOnce ==
  [][\A c \in BagToSet(calls) :
       (/\ c.op = "logout"
        /\ CopiesIn(c, calls') < CopiesIn(c, calls)
        /\ \A d \in BagToSet(calls') :
             d.op = "logout" => CopiesIn(d, calls') <= CopiesIn(d, calls))
       => (user' = 0 /\ route' = "login" /\ c.n = 1)]_vars

\* C22: with the view on screen, no request in flight and none failed, the
\* meetings, tasks and members in memory are those of the active workspace
\* and the selected meeting is one of the meetings in memory or none; with no
\* active workspace all of them are empty.
C22_DataOfActiveWorkspace ==
  (Rendered /\ calls = EmptyBag /\ events = 0) =>
    /\ meetings = MeetingsOf(workspaceId)
    /\ Len(tasks) = Len(ServerListTasks(workspaceId))
    /\ \A k \in 1..Len(tasks) : tasks[k].workspace_id = workspaceId
    /\ members = IF workspaceId = 0 THEN <<>> ELSE MembersOf(workspaceId)
    /\ meetingId = 0 \/ \E k \in 1..Len(meetings) : meetings[k].id = meetingId
    /\ workspaceId = 0 => (meetingId = 0 /\ tasks = <<>>)

\* C25: whenever an undo record exists, its task is a task of the active
\* workspace.
C25_UndoInActiveWorkspace ==
  lastDone # NoRecord =>
    \E k \in 1..Len(srvTasks) :
      srvTasks[k].id = lastDone.taskId /\ srvTasks[k].workspace_id = workspaceId

TypeOK ==
  /\ meetingId \in Meetings \cup {0}
  /\ selectedExtractionId \in Runs \cup {0}
  /\ Cardinality(timers) <= 1

====
